---------------------------- MODULE Spec2Model ----------------------------
(***************************************************************************)
(* Model of testbench/verify_testbench.py: the script that recomputes the  *)
(* SHA-256 and SHA3-256 digests of the hardware testbench's messages with  *)
(* hashlib, compares them with the expected values embedded in the script, *)
(* prints a report and returns the exit status.                            *)
(*                                                                         *)
(* Python strings are TLA+ strings.  The two hashlib calls are modelled by *)
(* what they compute (FIPS 180-4 SHA-256 and FIPS 202 SHA3-256), on words  *)
(* split into 16-bit limbs so that no intermediate value leaves the range  *)
(* of the model checker's integers.                                        *)
(***************************************************************************)
EXTENDS Integers, Sequences, FiniteSets, TLC

(***************************************************************************)
(* Sequences and characters                                                *)
(***************************************************************************)

\* The n-fold concatenation of the sequence s (Python's s * n).
RECURSIVE Repeat(_, _)
Repeat(s, n) ==
   IF n = 0 THEN <<>>
   ELSE LET half == Repeat(s, n \div 2)
        IN  IF n % 2 = 0 THEN half \o half ELSE half \o half \o s

\* The j-th character of the string s, as a string of length one.
CharAt(s, j) ==
   SubSeq(s, j, j)

\* The printable ASCII characters in code order, in two runs: codes 32
\* (space) to 95, and codes 97 to 126 (code 96, the grave accent, cannot be
\* written in a TLA+ string and occurs in no message).
AsciiLow ==
   " !\"#$%&'()*+,-./0123456789:;<=>?@ABCDEFGHIJKLMNOPQRSTUVWXYZ[\\]^_"

AsciiHigh ==
   "abcdefghijklmnopqrstuvwxyz{|}~"

\* The position of the one-character string c in the string s, 0 if absent.
IndexIn(s, c) ==
   IF \E j \in 1..Len(s) : CharAt(s, j) = c
   THEN CHOOSE j \in 1..Len(s) : CharAt(s, j) = c
   ELSE 0

\* The code point of a printable ASCII character.
Ord(c) ==
   IF IndexIn(AsciiLow, c) > 0 THEN 31 + IndexIn(AsciiLow, c)
   ELSE 96 + IndexIn(AsciiHigh, c)

\* msg.encode(): the UTF-8 bytes of msg; for ASCII text, one byte per
\* character, the character's code.
RECURSIVE encode(_)
encode(msg) ==
   IF msg = "" THEN <<>>
   ELSE IF Len(msg) = 1 THEN <<Ord(msg)>>
   ELSE encode(SubSeq(msg, 1, Len(msg) \div 2))
           \o encode(SubSeq(msg, (Len(msg) \div 2) + 1, Len(msg)))

HexDigits ==
   "0123456789abcdef"

\* Two lower-case hexadecimal digits for a byte, as bytes.hex() prints it.
HexByte(b) ==
   CharAt(HexDigits, (b \div 16) + 1) \o CharAt(HexDigits, (b % 16) + 1)

\* bytes.hex(): the lower-case hexadecimal text of a sequence of bytes.
RECURSIVE HexOfBytes(_)
HexOfBytes(bs) ==
   IF bs = <<>> THEN ""
   ELSE IF Len(bs) = 1 THEN HexByte(bs[1])
   ELSE HexOfBytes(SubSeq(bs, 1, Len(bs) \div 2))
           \o HexOfBytes(SubSeq(bs, (Len(bs) \div 2) + 1, Len(bs)))

(***************************************************************************)
(* Bitwise operations on 16-bit limbs                                      *)
(***************************************************************************)

\* Exclusive or and conjunction of two naturals, bit by bit.
RECURSIVE XorBits(_, _)
XorBits(a, b) ==
   IF a = 0 THEN b
   ELSE IF b = 0 THEN a
   ELSE ((a + b) % 2) + 2 * XorBits(a \div 2, b \div 2)

RECURSIVE AndBits(_, _)
AndBits(a, b) ==
   IF a = 0 \/ b = 0 THEN 0
   ELSE ((a % 2) * (b % 2)) + 2 * AndBits(a \div 2, b \div 2)

\* The same on 4-bit digits, tabulated: entry [a + 1][b + 1].
RECURSIVE XorRow(_, _)
XorRow(a, b) ==
   IF b > 15 THEN <<>> ELSE <<XorBits(a, b)>> \o XorRow(a, b + 1)

RECURSIVE XorRows(_)
XorRows(a) ==
   IF a > 15 THEN <<>> ELSE <<XorRow(a, 0)>> \o XorRows(a + 1)

RECURSIVE AndRow(_, _)
AndRow(a, b) ==
   IF b > 15 THEN <<>> ELSE <<AndBits(a, b)>> \o AndRow(a, b + 1)

RECURSIVE AndRows(_)
AndRows(a) ==
   IF a > 15 THEN <<>> ELSE <<AndRow(a, 0)>> \o AndRows(a + 1)

XorNibbles ==
   XorRows(0)

AndNibbles ==
   AndRows(0)

\* The k-th 4-bit digit of a limb, k = 0 the least significant.
Nibble(a, k) ==
   (a \div (16 ^ k)) % 16

Xor16(a, b) ==
   XorNibbles[Nibble(a, 0) + 1][Nibble(b, 0) + 1]
      + (16 * XorNibbles[Nibble(a, 1) + 1][Nibble(b, 1) + 1])
      + (256 * XorNibbles[Nibble(a, 2) + 1][Nibble(b, 2) + 1])
      + (4096 * XorNibbles[Nibble(a, 3) + 1][Nibble(b, 3) + 1])

And16(a, b) ==
   AndNibbles[Nibble(a, 0) + 1][Nibble(b, 0) + 1]
      + (16 * AndNibbles[Nibble(a, 1) + 1][Nibble(b, 1) + 1])
      + (256 * AndNibbles[Nibble(a, 2) + 1][Nibble(b, 2) + 1])
      + (4096 * AndNibbles[Nibble(a, 3) + 1][Nibble(b, 3) + 1])

Not16(a) ==
   65535 - a

(***************************************************************************)
(* hashlib.sha256: FIPS 180-4.  A 32-bit word is <<high limb, low limb>>.  *)
(***************************************************************************)

Xor32(a, b) ==
   <<Xor16(a[1], b[1]), Xor16(a[2], b[2])>>

And32(a, b) ==
   <<And16(a[1], b[1]), And16(a[2], b[2])>>

Not32(a) ==
   <<Not16(a[1]), Not16(a[2])>>

\* Addition modulo 2^32.
Add32(a, b) ==
   LET lo == a[2] + b[2]
       hi == a[1] + b[1] + (lo \div 65536)
   IN  <<hi % 65536, lo % 65536>>

\* Right rotation of a 32-bit word by n bits, 0 <= n < 32.
Rotr32(w, n) ==
   LET v == IF n >= 16 THEN <<w[2], w[1]>> ELSE w
       r == n % 16
       p == 2 ^ r
       q == 2 ^ (16 - r)
   IN  IF r = 0 THEN v
       ELSE <<(v[1] \div p) + ((v[2] % p) * q), (v[2] \div p) + ((v[1] % p) * q)>>

\* Right shift of a 32-bit word by n bits, 0 < n < 16.
Shr32(w, n) ==
   LET p == 2 ^ n
       q == 2 ^ (16 - n)
   IN  <<w[1] \div p, (w[2] \div p) + ((w[1] % p) * q)>>

Ch(x, y, z) ==
   Xor32(And32(x, y), And32(Not32(x), z))

Maj(x, y, z) ==
   Xor32(Xor32(And32(x, y), And32(x, z)), And32(y, z))

BigSigma0(x) ==
   Xor32(Xor32(Rotr32(x, 2), Rotr32(x, 13)), Rotr32(x, 22))

BigSigma1(x) ==
   Xor32(Xor32(Rotr32(x, 6), Rotr32(x, 11)), Rotr32(x, 25))

SmallSigma0(x) ==
   Xor32(Xor32(Rotr32(x, 7), Rotr32(x, 18)), Shr32(x, 3))

SmallSigma1(x) ==
   Xor32(Xor32(Rotr32(x, 17), Rotr32(x, 19)), Shr32(x, 10))

\* The round constants K[0..63].
K256 ==
   <<
      <<17034, 12184>>, <<28983, 17553>>, <<46528, 64463>>, <<59829, 56229>>,
      <<14678, 49755>>, <<23025, 4593>>, <<37439, 33444>>, <<43804, 24277>>,
      <<55303, 43672>>, <<4739, 23297>>, <<9265, 34238>>, <<21772, 32195>>,
      <<29374, 23924>>, <<32990, 45566>>, <<39900, 1703>>, <<49563, 61812>>,
      <<58523, 27073>>, <<61374, 18310>>, <<4033, 40390>>, <<9228, 41420>>,
      <<11753, 11375>>, <<19060, 33962>>, <<23728, 43484>>, <<30457, 35034>>,
      <<38974, 20818>>, <<43057, 50797>>, <<45059, 10184>>, <<48985, 32711>>,
      <<50912, 3059>>, <<54695, 37191>>, <<1738, 25425>>, <<5161, 10599>>,
      <<10167, 2693>>, <<11803, 8504>>, <<19756, 28156>>, <<21304, 3347>>,
      <<25866, 29524>>, <<30314, 2747>>, <<33218, 51502>>, <<37490, 11397>>,
      <<41663, 59553>>, <<43034, 26187>>, <<49739, 35696>>, <<51052, 20899>>,
      <<53650, 59417>>, <<54937, 1572>>, <<62478, 13701>>, <<4202, 41072>>,
      <<6564, 49430>>, <<7735, 27656>>, <<10056, 30540>>, <<13488, 48309>>,
      <<14620, 3251>>, <<20184, 43594>>, <<23452, 51791>>, <<26670, 28659>>,
      <<29839, 33518>>, <<30885, 25455>>, <<33992, 30740>>, <<36039, 520>>,
      <<37054, 65530>>, <<42064, 27883>>, <<48889, 41975>>, <<50801, 30962>>
   >>

\* The initial hash value H(0).
H256 ==
   <<
      <<27145, 58983>>, <<47975, 44677>>, <<15470, 62322>>, <<42319, 62778>>,
      <<20750, 21119>>, <<39685, 26764>>, <<8067, 55723>>, <<23520, 52505>>
   >>

\* The big-endian bytes of a 32-bit word.
BytesOfWord(w) ==
   <<w[1] \div 256, w[1] % 256, w[2] \div 256, w[2] % 256>>

\* The message length in bits as a 64-bit big-endian integer (the messages
\* here are far shorter than 2^28 bytes: the upper bytes are zero).
BitLength64(n) ==
   LET bits == 8 * n
   IN  <<0, 0, 0, 0>> \o BytesOfWord(<<bits \div 65536, bits % 65536>>)

\* Padding: 0x80, zero bytes up to 56 modulo 64, then the bit length.
Pad256(bs) ==
   LET n == Len(bs)
       zeros == (119 - (n % 64)) % 64
   IN  bs \o <<128>> \o Repeat(<<0>>, zeros) \o BitLength64(n)

\* The big-endian words t, t+1, ..., 16 of the k-th 64-byte block, k >= 0.
RECURSIVE WordsFrom(_, _, _)
WordsFrom(bs, k, t) ==
   IF t > 16 THEN <<>>
   ELSE <<(<<(bs[64 * k + 4 * t - 3] * 256) + bs[64 * k + 4 * t - 2],
             (bs[64 * k + 4 * t - 1] * 256) + bs[64 * k + 4 * t]>>)>>
           \o WordsFrom(bs, k, t + 1)

BlockWords(bs, k) ==
   WordsFrom(bs, k, 1)

\* The message schedule W[0..63], grown one word at a time from W[0..15].
RECURSIVE Schedule(_)
Schedule(w) ==
   IF Len(w) >= 64 THEN w
   ELSE LET t == Len(w) + 1
            next == Add32(Add32(SmallSigma1(w[t - 2]), w[t - 7]),
                          Add32(SmallSigma0(w[t - 15]), w[t - 16]))
        IN  Schedule(Append(w, next))

\* One round: the working variables <<a, b, c, d, e, f, g, h>> after round
\* t (1..64) with schedule word wt.
Round256(s, t, wt) ==
   LET t1 == Add32(Add32(Add32(s[8], BigSigma1(s[5])), Ch(s[5], s[6], s[7])),
                   Add32(K256[t], wt))
       t2 == Add32(BigSigma0(s[1]), Maj(s[1], s[2], s[3]))
   IN  <<Add32(t1, t2), s[1], s[2], s[3], Add32(s[4], t1), s[5], s[6], s[7]>>

\* Rounds lo..hi applied in order.
RECURSIVE Rounds256(_, _, _, _)
Rounds256(s, w, lo, hi) ==
   IF lo > hi THEN s
   ELSE IF lo = hi THEN Round256(s, lo, w[lo])
   ELSE LET mid == (lo + hi) \div 2
            half == Rounds256(s, w, lo, mid)
        IN  IF Len(half) = 8 THEN Rounds256(half, w, mid + 1, hi) ELSE <<>>

\* The compression function: the hash value after one more block.
Compress256(h, words) ==
   LET s == Rounds256(h, Schedule(words), 1, 64)
   IN  <<Add32(h[1], s[1]), Add32(h[2], s[2]), Add32(h[3], s[3]), Add32(h[4], s[4]),
         Add32(h[5], s[5]), Add32(h[6], s[6]), Add32(h[7], s[7]), Add32(h[8], s[8])>>

\* The blocks k, k+1, ... of the padded message, processed in order.
RECURSIVE Blocks256(_, _, _)
Blocks256(h, bs, k) ==
   IF 64 * k >= Len(bs) THEN h
   ELSE LET next == Compress256(h, BlockWords(bs, k))
        IN  IF Len(next) = 8 THEN Blocks256(next, bs, k + 1) ELSE <<>>

\* The 32 digest bytes: the eight words of the final hash value.
RECURSIVE BytesOfWords(_)
BytesOfWords(ws) ==
   IF ws = <<>> THEN <<>> ELSE BytesOfWord(Head(ws)) \o BytesOfWords(Tail(ws))

\* hashlib.sha256(data).hexdigest()
sha256_hexdigest(data) ==
   HexOfBytes(BytesOfWords(Blocks256(H256, Pad256(data), 0)))


(***************************************************************************)
(* hashlib.sha3_256: FIPS 202, rate 136 bytes, capacity 64 bytes.  A       *)
(* 64-bit lane is <<l0, l1, l2, l3>>, least significant limb first; the    *)
(* state is the 25 lanes A[x, y] at index x + 5y + 1.                       *)
(***************************************************************************)

Xor64(a, b) ==
   <<Xor16(a[1], b[1]), Xor16(a[2], b[2]), Xor16(a[3], b[3]), Xor16(a[4], b[4])>>

And64(a, b) ==
   <<And16(a[1], b[1]), And16(a[2], b[2]), And16(a[3], b[3]), And16(a[4], b[4])>>

Not64(a) ==
   <<Not16(a[1]), Not16(a[2]), Not16(a[3]), Not16(a[4])>>

\* Left rotation of a lane by n bits, 0 <= n < 64: by whole limbs, then by
\* the remaining r < 16 bits.
Rotl64(a, n) ==
   LET k == n \div 16
       r == n % 16
       v == <<a[((4 - k) % 4) + 1], a[((5 - k) % 4) + 1],
              a[((6 - k) % 4) + 1], a[((7 - k) % 4) + 1]>>
       p == 2 ^ r
       q == 2 ^ (16 - r)
   IN  IF r = 0 THEN v
       ELSE <<((v[1] * p) % 65536) + (v[4] \div q), ((v[2] * p) % 65536) + (v[1] \div q),
              ((v[3] * p) % 65536) + (v[2] \div q), ((v[4] * p) % 65536) + (v[3] \div q)>>

\* The round constants RC[0..23], least significant limb first.
KeccakRC ==
   <<
      <<1, 0, 0, 0>>, <<32898, 0, 0, 0>>, <<32906, 0, 0, 32768>>,
      <<32768, 32768, 0, 32768>>, <<32907, 0, 0, 0>>, <<1, 32768, 0, 0>>,
      <<32897, 32768, 0, 32768>>, <<32777, 0, 0, 32768>>, <<138, 0, 0, 0>>,
      <<136, 0, 0, 0>>, <<32777, 32768, 0, 0>>, <<10, 32768, 0, 0>>,
      <<32907, 32768, 0, 0>>, <<139, 0, 0, 32768>>, <<32905, 0, 0, 32768>>,
      <<32771, 0, 0, 32768>>, <<32770, 0, 0, 32768>>, <<128, 0, 0, 32768>>,
      <<32778, 0, 0, 0>>, <<10, 32768, 0, 32768>>, <<32897, 32768, 0, 32768>>,
      <<32896, 0, 0, 32768>>, <<1, 32768, 0, 0>>, <<32776, 32768, 0, 32768>>
   >>

\* The rotation offsets r[x, y], at index x + 5y + 1.
KeccakRho ==
   <<
      0, 1, 62, 28, 27,
      36, 44, 6, 55, 20,
      3, 10, 43, 25, 39,
      41, 45, 15, 21, 8,
      18, 2, 61, 56, 14
   >>

\* The lane A[x, y] of a state, coordinates taken modulo 5.
Lane(A, x, y) ==
   A[(x % 5) + (5 * (y % 5)) + 1]

\* Theta: the parity of column x, and the lanes j, j+1, ..., 25 each XORed
\* with the parities of the two neighbouring columns.
Column(A, x) ==
   Xor64(Xor64(Xor64(Xor64(Lane(A, x, 0), Lane(A, x, 1)), Lane(A, x, 2)),
               Lane(A, x, 3)), Lane(A, x, 4))

RECURSIVE ThetaFrom(_, _, _)
ThetaFrom(A, D, j) ==
   IF j > 25 THEN <<>>
   ELSE <<Xor64(A[j], D[((j - 1) % 5) + 1])>> \o ThetaFrom(A, D, j + 1)

\* The parities of the five columns, and from them the five theta masks.
Columns(A) ==
   <<Column(A, 0), Column(A, 1), Column(A, 2), Column(A, 3), Column(A, 4)>>

ThetaMasks(C) ==
   <<Xor64(C[5], Rotl64(C[2], 1)), Xor64(C[1], Rotl64(C[3], 1)),
     Xor64(C[2], Rotl64(C[4], 1)), Xor64(C[3], Rotl64(C[5], 1)),
     Xor64(C[4], Rotl64(C[1], 1))>>

Theta(A) ==
   ThetaFrom(A, ThetaMasks(Columns(A)), 1)

\* Rho and pi: the lanes j, j+1, ..., 25 of the result, lane [x, y] being
\* the rotated lane [x + 3y, x] of A.
RECURSIVE RhoPiFrom(_, _)
RhoPiFrom(A, j) ==
   IF j > 25 THEN <<>>
   ELSE LET x == (j - 1) % 5
            y == (j - 1) \div 5
            sx == (x + (3 * y)) % 5
        IN  <<Rotl64(Lane(A, sx, x), KeccakRho[sx + (5 * x) + 1])>>
               \o RhoPiFrom(A, j + 1)

\* Chi: the lanes j, j+1, ..., 25 of the result.
RECURSIVE ChiFrom(_, _)
ChiFrom(A, j) ==
   IF j > 25 THEN <<>>
   ELSE LET x == (j - 1) % 5
            y == (j - 1) \div 5
        IN  <<Xor64(A[j], And64(Not64(Lane(A, x + 1, y)), Lane(A, x + 2, y)))>>
               \o ChiFrom(A, j + 1)

\* Iota: the round constant XORed into lane [0, 0].
Iota(A, rc) ==
   <<Xor64(A[1], rc)>> \o Tail(A)

\* One round of Keccak-f[1600] with round constant rc: theta, rho and pi,
\* chi, iota.
KeccakRound(A, rc) ==
   Iota(ChiFrom(RhoPiFrom(Theta(A), 1), 1), rc)

\* Rounds lo..hi of the permutation applied in order.
RECURSIVE KeccakRounds(_, _, _)
KeccakRounds(A, lo, hi) ==
   IF lo > hi THEN A
   ELSE IF lo = hi THEN KeccakRound(A, KeccakRC[lo])
   ELSE LET mid == (lo + hi) \div 2
            half == KeccakRounds(A, lo, mid)
        IN  IF Len(half) = 25 THEN KeccakRounds(half, mid + 1, hi) ELSE <<>>

KeccakF(A) ==
   KeccakRounds(A, 1, 24)

\* Pad3 with the padding of the original Keccak submission (0x01 in place of
\* the SHA-3 domain byte 0x06): what a library's keccak_256 computes.
Pad3_keccak(bs) ==
   LET q == 136 - (Len(bs) % 136)
   IN  IF q = 1 THEN bs \o <<129>>
       ELSE bs \o <<1>> \o Repeat(<<0>>, q - 2) \o <<128>>

\* Padding: the SHA-3 domain bits and pad10*1, to a multiple of the rate;
\* a single byte 0x86 when exactly one byte is missing.
Pad3(bs) ==
   LET q == 136 - (Len(bs) % 136)
   IN  IF q = 1 THEN bs \o <<134>>
       ELSE bs \o <<6>> \o Repeat(<<0>>, q - 2) \o <<128>>

\* The lanes j, j+1, ..., 25 of the state after XORing in the k-th rate
\* block (k >= 0) of the padded message: 17 little-endian lanes.
RECURSIVE AbsorbFrom(_, _, _, _)
AbsorbFrom(A, bs, k, j) ==
   IF j > 25 THEN <<>>
   ELSE IF j > 17 THEN <<A[j]>> \o AbsorbFrom(A, bs, k, j + 1)
   ELSE LET o == (136 * k) + (8 * j)
        IN  <<Xor64(A[j], <<bs[o - 7] + (256 * bs[o - 6]), bs[o - 5] + (256 * bs[o - 4]),
                            bs[o - 3] + (256 * bs[o - 2]), bs[o - 1] + (256 * bs[o])>>)>>
               \o AbsorbFrom(A, bs, k, j + 1)

AbsorbBlock(A, bs, k) ==
   AbsorbFrom(A, bs, k, 1)

\* The rate blocks k, k+1, ... absorbed in order, the permutation after each.
RECURSIVE Absorb(_, _, _)
Absorb(A, bs, k) ==
   IF 136 * k >= Len(bs) THEN A
   ELSE LET next == KeccakF(AbsorbBlock(A, bs, k))
        IN  IF Len(next) = 25 THEN Absorb(next, bs, k + 1) ELSE <<>>

\* The little-endian bytes of a lane.
BytesOfLane(a) ==
   <<a[1] % 256, a[1] \div 256, a[2] % 256, a[2] \div 256,
     a[3] % 256, a[3] \div 256, a[4] % 256, a[4] \div 256>>

\* Squeeze: the first 32 bytes of the state.
Squeeze256(A) ==
   BytesOfLane(A[1]) \o BytesOfLane(A[2]) \o BytesOfLane(A[3]) \o BytesOfLane(A[4])

\* hashlib.sha3_256(data).hexdigest()
sha3_256_hexdigest(data) ==
   HexOfBytes(Squeeze256(Absorb(Repeat(<<(<<0, 0, 0, 0>>)>>, 25), Pad3(data), 0)))


(***************************************************************************)
(* The two hashlib calls of the script, on text.  TLC would recompute a    *)
(* digest at every step that asks for it, so the digests of the messages   *)
(* the model hashes are tabulated once; a message outside the table is     *)
(* hashed directly.                                                        *)
(***************************************************************************)

\* The messages of the embedded SHA-256 table and of the SHA-3-256 table.
Messages256 ==
   << "",
      "abc",
      "hello",
      "test" >>

Messages3 ==
   << "",
      "abc",
      "abcdbcdecdefdefgefghfghighijhijkijkljklmklmnlmnomnopnopq",
      "a",
      "The quick brown fox jumps over the lazy dog" >>

\* The digests of a sequence of messages.
RECURSIVE Sha256Digests(_)
Sha256Digests(msgs) ==
   IF msgs = <<>> THEN <<>>
   ELSE <<sha256_hexdigest(encode(Head(msgs)))>> \o Sha256Digests(Tail(msgs))

RECURSIVE Sha3Digests(_)
Sha3Digests(msgs) ==
   IF msgs = <<>> THEN <<>>
   ELSE <<sha3_256_hexdigest(encode(Head(msgs)))>> \o Sha3Digests(Tail(msgs))

Sha256Table ==
   Sha256Digests(Messages256)

Sha3Table ==
   Sha3Digests(Messages3)

\* The position of msg in the sequence msgs, 0 if it is not there.
MessageIndex(msgs, msg) ==
   IF \E k \in 1..Len(msgs) : msgs[k] = msg
   THEN CHOOSE k \in 1..Len(msgs) : msgs[k] = msg
   ELSE 0

\* hashlib.sha256(msg.encode()).hexdigest()
hashlib_sha256(msg) ==
   IF MessageIndex(Messages256, msg) > 0
   THEN Sha256Table[MessageIndex(Messages256, msg)]
   ELSE sha256_hexdigest(encode(msg))

\* hashlib.sha3_256(msg.encode()).hexdigest()
hashlib_sha3_256(msg) ==
   IF MessageIndex(Messages3, msg) > 0
   THEN Sha3Table[MessageIndex(Messages3, msg)]
   ELSE sha3_256_hexdigest(encode(msg))

(***************************************************************************)
(* format_hash and the pieces of the report                                *)
(***************************************************************************)

\* format_hash(h): h in groups of eight characters separated by spaces.
RECURSIVE format_hash(_)
format_hash(h) ==
   IF Len(h) <= 8 THEN h
   ELSE SubSeq(h, 1, 8) \o " " \o format_hash(SubSeq(h, 9, Len(h)))

\* display_msg: the message, cut to 37 characters and "..." if longer than 40.
display_msg(msg) ==
   IF Len(msg) <= 40 THEN msg ELSE SubSeq(msg, 1, 37) \o "..."

\* s with its upper-case letters replaced by lower-case ones (str.lower()).
UpperLetters ==
   "ABCDEFGHIJKLMNOPQRSTUVWXYZ"

LowerLetters ==
   "abcdefghijklmnopqrstuvwxyz"

LowerChar(c) ==
   IF IndexIn(UpperLetters, c) > 0
   THEN CharAt(LowerLetters, IndexIn(UpperLetters, c))
   ELSE c

RECURSIVE Lower(_)
Lower(s) ==
   IF Len(s) = 0 THEN s
   ELSE IF Len(s) = 1 THEN LowerChar(s)
   ELSE Lower(SubSeq(s, 1, Len(s) \div 2))
           \o Lower(SubSeq(s, Len(s) \div 2 + 1, Len(s)))

\* digests_match with the expected string lower-cased first
\* (computed == expected.lower()).
digests_match_ignoring_case(computed_digest, expected) ==
   computed_digest = Lower(expected)

\* digests_match on the length of the expected string only
\* (computed.startswith(expected)).
digests_match_prefix(computed_digest, expected) ==
   SubSeq(computed_digest, 1, Len(expected)) = expected

\* computed == expected: Python's string equality, character for character.
digests_match(computed_digest, expected) ==
   computed_digest = expected

\* The status printed for a case.
status_of(m) ==
   IF m THEN "PASS" ELSE "FAIL"

\* test_lines with the cases numbered from 0 (enumerate(tests) without its
\* start argument).
test_lines_zero_based(n, m, description, msg, expected, computed_digest) ==
   [kind |-> "test", number |-> n - 1, status |-> status_of(m),
    description |-> description, input |-> display_msg(msg),
    expected |-> format_hash(expected), computed |-> format_hash(computed_digest)]

\* The four lines printed for one case.
test_lines(n, m, description, msg, expected, computed_digest) ==
   [kind |-> "test", number |-> n, status |-> status_of(m),
    description |-> description, input |-> display_msg(msg),
    expected |-> format_hash(expected), computed |-> format_hash(computed_digest)]

\* The title block a verification function prints first.
header_lines(title) ==
   [kind |-> "header", title |-> title]

(***************************************************************************)
(* The embedded test tables of main(): (description, message, expected).   *)
(***************************************************************************)

sha256_tests_embedded ==
   << <<"Empty string",
        "",
        "e3b0c44298fc1c149afbf4c8996fb92427ae41e4649b934ca495991b7852b855">>,
      <<"'abc'",
        "abc",
        "ba7816bf8f01cfea414140de5dae2223b00361a396177a9cb410ff61f20015ad">>,
      <<"'hello'",
        "hello",
        "2cf24dba5fb0a30e26e83b2ac5b9e29e1b161e5c1fa7425e73043362938b9824">>,
      <<"Block of zeros with length 0",
        "",
        "e3b0c44298fc1c149afbf4c8996fb92427ae41e4649b934ca495991b7852b855">>,
      <<"'test'",
        "test",
        "9f86d081884c7d659a2feaa0c55ad015a3bf4f1b2b0b822cd15d6c15b0f00a08">>,
      <<"Back-to-back 'abc' hashes #1",
        "abc",
        "ba7816bf8f01cfea414140de5dae2223b00361a396177a9cb410ff61f20015ad">>,
      <<"Back-to-back 'abc' hashes #2",
        "abc",
        "ba7816bf8f01cfea414140de5dae2223b00361a396177a9cb410ff61f20015ad">> >>

sha3_tests_embedded ==
   << <<"Empty string",
        "",
        "a7ffc6f8bf1ed76651c14756a061d662f580ff4de43b49fa82d80a4b80f8434a">>,
      <<"'abc'",
        "abc",
        "3a985da74fe225b2045c172d6bd390bd855f086e3e9d525b46bfe24511431532">>,
      <<"'abcdbcdecdefdefgefghfghighijhijkijkljklmklmnlmnomnopnopq'",
        "abcdbcdecdefdefgefghfghighijhijkijkljklmklmnlmnomnopnopq",
        "41c0dba2a9d6240849100376a8235e2c82e1b9998a999e21db32dd97496d3376">>,
      <<"'a'",
        "a",
        "80084bf2fba02475726feb2cab2d8215eab14bc6bdd8bfb2c8151257032ecd8b">>,
      <<"'The quick brown fox jumps over the lazy dog'",
        "The quick brown fox jumps over the lazy dog",
        "69070dda01975c8c120c3aada1b282394e7f032fa9cf32f4cb2259a0897dfc04">>,
      <<"Back-to-back 'abc' hashes #1",
        "abc",
        "3a985da74fe225b2045c172d6bd390bd855f086e3e9d525b46bfe24511431532">>,
      <<"Back-to-back 'abc' hashes #2",
        "abc",
        "3a985da74fe225b2045c172d6bd390bd855f086e3e9d525b46bfe24511431532">>,
      <<"Block of zeros",
        "",
        "a7ffc6f8bf1ed76651c14756a061d662f580ff4de43b49fa82d80a4b80f8434a">> >>

(***************************************************************************)
(* The tables the model runs: the embedded ones, and every table of at     *)
(* most MaxCases cases drawn from a pool that holds, beside a correct      *)
(* vector of the embedded table, an expected digest in upper case, a       *)
(* malformed one, and a well-formed one that is not the message's digest.  *)
(***************************************************************************)

MaxCases ==
   2

CasePool256 ==
   << <<"'abc'",
        "abc",
        "ba7816bf8f01cfea414140de5dae2223b00361a396177a9cb410ff61f20015ad">>,
      <<"'abc', expected in upper case",
        "abc",
        "BA7816BF8F01CFEA414140DE5DAE2223B00361A396177A9CB410FF61F20015AD">>,
      <<"Empty string, expected one character short",
        "",
        "e3b0c44298fc1c149afbf4c8996fb92427ae41e4649b934ca495991b7852b85">>,
      <<"'abc', expected for another algorithm",
        "abc",
        "3a985da74fe225b2045c172d6bd390bd855f086e3e9d525b46bfe24511431532">> >>

CasePool3 ==
   << <<"'abc'",
        "abc",
        "3a985da74fe225b2045c172d6bd390bd855f086e3e9d525b46bfe24511431532">>,
      <<"'abc', expected in upper case",
        "abc",
        "3A985DA74FE225B2045C172D6BD390BD855F086E3E9D525B46BFE24511431532">>,
      <<"Empty string, expected not hexadecimal",
        "",
        "a7ffc6f8bf1ed76651c1xyz6a061d662f580ff4de43b49fa82d80a4b80f8434a">>,
      <<"'abc', expected for another algorithm",
        "abc",
        "ba7816bf8f01cfea414140de5dae2223b00361a396177a9cb410ff61f20015ad">> >>

\* The elements of a sequence.
Range(s) ==
   {s[k] : k \in 1..Len(s)}

\* The sequences of at most n elements of the sequence pool.
TablesUpTo(pool, n) ==
   UNION {[1..k -> Range(pool)] : k \in 0..n}

Tables256 ==
   TablesUpTo(CasePool256, MaxCases) \cup {sha256_tests_embedded}

Tables3 ==
   TablesUpTo(CasePool3, MaxCases) \cup {sha3_tests_embedded}

(***************************************************************************)
(* The run of the script, statement by statement.                          *)
(***************************************************************************)

VARIABLES
   sha256_tests,   \* main: the SHA-256 table
   sha3_tests,     \* main: the SHA-3-256 table
   pc,             \* the statement the run is at
   i,              \* verify_*: the number of the case in hand (0: none yet)
   computed,       \* verify_*: the digest computed for the case in hand
   match,          \* verify_*: computed == expected for the case in hand
   passed,         \* verify_*: the cases counted as passed
   failed,         \* verify_*: the cases counted as failed
   sha256_passed,  \* main: what verify_sha256 returned
   sha256_failed,
   sha3_passed,    \* main: what verify_sha3 returned
   sha3_failed,
   stdout,         \* what has been printed, in order
   exit_status,    \* the status given to sys.exit (-1: still running)
   calls           \* the hashlib calls made so far: <<algorithm, message>>

vars ==
   <<sha256_tests, sha3_tests, pc, i, computed, match, passed, failed,
     sha256_passed, sha256_failed, sha3_passed, sha3_failed, stdout,
     exit_status, calls>>

tables ==
   <<sha256_tests, sha3_tests>>

results ==
   <<sha256_passed, sha256_failed, sha3_passed, sha3_failed>>

\* The state when main() has built its two tables.
Init ==
   /\ sha256_tests \in Tables256
   /\ sha3_tests \in Tables3
   /\ pc = "main"
   /\ i = 0
   /\ computed = ""
   /\ match = FALSE
   /\ passed = 0
   /\ failed = 0
   /\ sha256_passed = 0
   /\ sha256_failed = 0
   /\ sha3_passed = 0
   /\ sha3_failed = 0
   /\ stdout = <<>>
   /\ exit_status = -1
   /\ calls = <<>>

\* main calls verify_sha256(sha256_tests) and verify_sha3(sha3_tests).
verify_sha256_argument ==
   sha256_tests

\* main passing the SHA-256 table to verify_sha3 as well.
verify_sha3_argument_copy_paste ==
   sha256_tests

verify_sha3_argument ==
   sha3_tests

\* tests_exhausted with a break after the first failed case.
tests_exhausted_or_failed(tests) ==
   i >= Len(tests) \/ failed > 0

\* The for loop of a verification function has no case left to take.
tests_exhausted(tests) ==
   i >= Len(tests)

\* The messages of the calls made so far to one algorithm, concatenated.
RECURSIVE fed_so_far(_, _)
fed_so_far(cs, algorithm) ==
   IF cs = <<>> THEN ""
   ELSE IF Head(cs)[1] = algorithm
        THEN Head(cs)[2] \o fed_so_far(Tail(cs), algorithm)
        ELSE fed_so_far(Tail(cs), algorithm)

\* main prints its banner and enters verify_sha256, which prints its title
\* and zeroes its counters.
verify_sha256_begin ==
   /\ pc = "main"
   /\ stdout' = stdout \o <<[kind |-> "banner"], header_lines("SHA-256")>>
   /\ passed' = 0
   /\ failed' = 0
   /\ i' = 0
   /\ pc' = "sha256_loop"
   /\ UNCHANGED <<tables, computed, match, results, exit_status, calls>>

\* verify_sha256_compute with one hash object made before the loop and
\* updated with each message: the digest is that of all the messages so far.
verify_sha256_compute_shared_hasher ==
   /\ pc = "sha256_loop"
   /\ ~tests_exhausted(verify_sha256_argument)
   /\ i' = i + 1
   /\ computed' = hashlib_sha256(fed_so_far(calls, "sha256")
                                    \o verify_sha256_argument[i + 1][2])
   /\ calls' = Append(calls, <<"sha256", verify_sha256_argument[i + 1][2]>>)
   /\ pc' = "sha256_computed"
   /\ UNCHANGED <<tables, match, passed, failed, results, stdout, exit_status>>

\* The loop takes the next case and computes its digest.
verify_sha256_compute ==
   /\ pc = "sha256_loop"
   /\ ~tests_exhausted(verify_sha256_argument)
   /\ i' = i + 1
   /\ computed' = hashlib_sha256(verify_sha256_argument[i + 1][2])
   /\ calls' = Append(calls, <<"sha256", verify_sha256_argument[i + 1][2]>>)
   /\ pc' = "sha256_computed"
   /\ UNCHANGED <<tables, match, passed, failed, results, stdout, exit_status>>

\* verify_sha256_compare with a continue after a failed case, which is then
\* never printed.
verify_sha256_compare_continue ==
   /\ pc = "sha256_computed"
   /\ match' = digests_match(computed, verify_sha256_argument[i][3])
   /\ passed' = IF match' THEN passed + 1 ELSE passed
   /\ failed' = IF match' THEN failed ELSE failed + 1
   /\ pc' = IF match' THEN "sha256_compared" ELSE "sha256_loop"
   /\ UNCHANGED <<tables, i, computed, results, stdout, exit_status, calls>>

\* match = computed == expected, and one of the two counters goes up.
verify_sha256_compare ==
   /\ pc = "sha256_computed"
   /\ match' = digests_match(computed, verify_sha256_argument[i][3])
   /\ passed' = IF match' THEN passed + 1 ELSE passed
   /\ failed' = IF match' THEN failed ELSE failed + 1
   /\ pc' = "sha256_compared"
   /\ UNCHANGED <<tables, i, computed, results, stdout, exit_status, calls>>

\* The case is printed, and the loop goes on.
verify_sha256_report ==
   /\ pc = "sha256_compared"
   /\ stdout' = Append(stdout,
                       test_lines(i, match, verify_sha256_argument[i][1],
                                  verify_sha256_argument[i][2],
                                  verify_sha256_argument[i][3], computed))
   /\ pc' = "sha256_loop"
   /\ UNCHANGED <<tables, i, computed, match, passed, failed, results,
                  exit_status, calls>>

\* The table is exhausted: verify_sha256 returns (passed, failed) to main.
verify_sha256_return ==
   /\ pc = "sha256_loop"
   /\ tests_exhausted(verify_sha256_argument)
   /\ sha256_passed' = passed
   /\ sha256_failed' = failed
   /\ i' = 0
   /\ computed' = ""
   /\ match' = FALSE
   /\ passed' = 0
   /\ failed' = 0
   /\ pc' = "sha3_call"
   /\ UNCHANGED <<tables, sha3_passed, sha3_failed, stdout, exit_status, calls>>

\* main enters verify_sha3, which prints its title and zeroes its counters.
verify_sha3_begin ==
   /\ pc = "sha3_call"
   /\ stdout' = Append(stdout, header_lines("SHA-3-256"))
   /\ passed' = 0
   /\ failed' = 0
   /\ i' = 0
   /\ pc' = "sha3_loop"
   /\ UNCHANGED <<tables, computed, match, results, exit_status, calls>>

verify_sha3_compute ==
   /\ pc = "sha3_loop"
   /\ ~tests_exhausted(verify_sha3_argument)
   /\ i' = i + 1
   /\ computed' = hashlib_sha3_256(verify_sha3_argument[i + 1][2])
   /\ calls' = Append(calls, <<"sha3_256", verify_sha3_argument[i + 1][2]>>)
   /\ pc' = "sha3_computed"
   /\ UNCHANGED <<tables, match, passed, failed, results, stdout, exit_status>>

\* verify_sha3_compare with passed incremented in both branches.
verify_sha3_compare_passed_only ==
   /\ pc = "sha3_computed"
   /\ match' = digests_match(computed, verify_sha3_argument[i][3])
   /\ passed' = passed + 1
   /\ failed' = failed
   /\ pc' = "sha3_compared"
   /\ UNCHANGED <<tables, i, computed, results, stdout, exit_status, calls>>

verify_sha3_compare ==
   /\ pc = "sha3_computed"
   /\ match' = digests_match(computed, verify_sha3_argument[i][3])
   /\ passed' = IF match' THEN passed + 1 ELSE passed
   /\ failed' = IF match' THEN failed ELSE failed + 1
   /\ pc' = "sha3_compared"
   /\ UNCHANGED <<tables, i, computed, results, stdout, exit_status, calls>>

verify_sha3_report ==
   /\ pc = "sha3_compared"
   /\ stdout' = Append(stdout,
                       test_lines(i, match, verify_sha3_argument[i][1],
                                  verify_sha3_argument[i][2],
                                  verify_sha3_argument[i][3], computed))
   /\ pc' = "sha3_loop"
   /\ UNCHANGED <<tables, i, computed, match, passed, failed, results,
                  exit_status, calls>>

verify_sha3_return ==
   /\ pc = "sha3_loop"
   /\ tests_exhausted(verify_sha3_argument)
   /\ sha3_passed' = passed
   /\ sha3_failed' = failed
   /\ i' = 0
   /\ computed' = ""
   /\ match' = FALSE
   /\ passed' = 0
   /\ failed' = 0
   /\ pc' = "summary"
   /\ UNCHANGED <<tables, sha256_passed, sha256_failed, stdout, exit_status, calls>>

\* The totals main computes for its summary.
total_passed ==
   sha256_passed + sha3_passed

\* total_failed without the SHA-256 failures.
total_failed_sha3_only ==
   sha3_failed

total_failed ==
   sha256_failed + sha3_failed

total_tests ==
   total_passed + total_failed

\* What main returns, and the script exits with.
main_return ==
   IF total_failed = 0 THEN 0 ELSE 1

\* main prints the summary and returns the exit status to sys.exit.
main_summary ==
   /\ pc = "summary"
   /\ stdout' = Append(stdout,
         [kind |-> "summary",
          sha256 |-> <<sha256_passed, Len(sha256_tests)>>,
          sha3 |-> <<sha3_passed, Len(sha3_tests)>>,
          total |-> <<total_passed, total_tests>>,
          verdict |-> IF total_failed = 0 THEN "ALL TESTS PASSED"
                      ELSE "TEST(S) FAILED",
          failures |-> total_failed])
   /\ exit_status' = main_return
   /\ pc' = "exit"
   /\ UNCHANGED <<tables, i, computed, match, passed, failed, results, calls>>

Next ==
   \/ verify_sha256_begin
   \/ verify_sha256_compute
   \/ verify_sha256_compare
   \/ verify_sha256_report
   \/ verify_sha256_return
   \/ verify_sha3_begin
   \/ verify_sha3_compute
   \/ verify_sha3_compare
   \/ verify_sha3_report
   \/ verify_sha3_return
   \/ main_summary

Spec ==
   Init /\ [][Next]_vars

(***************************************************************************)
(* What the run has done, read off the state.                              *)
(***************************************************************************)

IsTest(r) ==
   r.kind = "test"

IsPass(r) ==
   r.status = "PASS"

IsSha256Call(c) ==
   c[1] = "sha256"

IsSha3Call(c) ==
   c[1] = "sha3_256"

\* Where the title of verify_sha3 stands in the output, 0 if not printed yet.
Sha3Title ==
   IF \E k \in 1..Len(stdout) :
         stdout[k].kind = "header" /\ stdout[k].title = "SHA-3-256"
   THEN CHOOSE k \in 1..Len(stdout) :
         stdout[k].kind = "header" /\ stdout[k].title = "SHA-3-256"
   ELSE 0

\* The cases printed so far by verify_sha256 and by verify_sha3, in order.
Reported256 ==
   SelectSeq(IF Sha3Title = 0 THEN stdout ELSE SubSeq(stdout, 1, Sha3Title),
             IsTest)

Reported3 ==
   IF Sha3Title = 0 THEN <<>>
   ELSE SelectSeq(SubSeq(stdout, Sha3Title + 1, Len(stdout)), IsTest)

\* The hashlib calls made so far to each algorithm, in order.
Calls256 ==
   SelectSeq(calls, IsSha256Call)

Calls3 ==
   SelectSeq(calls, IsSha3Call)

\* Case k of a table has an expected string that is not the digest of its
\* message.
Mismatch256(k) ==
   hashlib_sha256(sha256_tests[k][2]) # sha256_tests[k][3]

Mismatch3(k) ==
   hashlib_sha3_256(sha3_tests[k][2]) # sha3_tests[k][3]

\* Case k of the table tests is the k-th of the calls cs: it has been
\* computed.
Computed(cs, tests, k) ==
   k <= Len(cs) /\ cs[k][2] = tests[k][2]

\* Case k of the table tests is the k-th of the printed cases rs: it has been
\* compared and printed.
Printed(rs, tests, k) ==
   /\ k <= Len(rs)
   /\ rs[k].description = tests[k][1]
   /\ rs[k].status \in {"PASS", "FAIL"}

\* Every case of the table tests from the k-th on has been computed, compared
\* and printed.
AllRunFrom(cs, rs, tests, k) ==
   \A j \in k..Len(tests) : Computed(cs, tests, j) /\ Printed(rs, tests, j)

InSha256 ==
   pc \in {"sha256_loop", "sha256_computed", "sha256_compared"}

InSha3 ==
   pc \in {"sha3_loop", "sha3_computed", "sha3_compared"}

AfterSha256 ==
   pc \in {"sha3_call", "sha3_loop", "sha3_computed", "sha3_compared",
           "summary", "exit"}

AfterSha3 ==
   pc \in {"summary", "exit"}

\* The case in hand in a verification loop.
CaseInHand ==
   IF InSha256 THEN sha256_tests[i] ELSE sha3_tests[i]

(***************************************************************************)
(* C1: the exit status                                                     *)
(***************************************************************************)

\* C1: when main has returned, the exit status is 0 or 1, and it is 0
\* exactly when no case of either table has an expected string other than
\* the digest of its message; until then no status has been given.
C1_ExitStatus ==
   /\ pc # "exit" => exit_status = -1
   /\ pc = "exit" =>
         /\ exit_status \in {0, 1}
         /\ exit_status = 0 <=>
               /\ \A k \in 1..Len(sha256_tests) : ~Mismatch256(k)
               /\ \A k \in 1..Len(sha3_tests) : ~Mismatch3(k)

\* A finished run whose only mismatch is one case of the SHA-3-256 table.
C1_Witness ==
   /\ pc = "exit"
   /\ exit_status = 1
   /\ Len(sha256_tests) = 2
   /\ \A k \in 1..Len(sha256_tests) : ~Mismatch256(k)
   /\ Len(sha3_tests) = 2
   /\ ~Mismatch3(1)
   /\ Mismatch3(2)

(***************************************************************************)
(* C2: a mismatch does not stop the run                                    *)
(***************************************************************************)

\* The case in hand has been compared and did not match; the run is at the
\* prints of the case or back at the head of the loop.
AfterMismatch ==
   /\ pc \in {"sha256_compared", "sha256_loop", "sha3_compared", "sha3_loop"}
   /\ i > 0
   /\ ~match

\* C2: after a mismatch the run has a next step, which at the head of a loop
\* with cases left is the computation of the next case; and in a finished
\* run, for every case k that mismatched, every later case of its table and
\* every case of the other table has been computed, compared and printed,
\* and the summary is the last thing printed.
C2_NoShortCircuit ==
   /\ AfterMismatch => ENABLED Next
   /\ (AfterMismatch /\ pc = "sha256_loop" /\ i < Len(sha256_tests))
         => ENABLED verify_sha256_compute
   /\ (AfterMismatch /\ pc = "sha3_loop" /\ i < Len(sha3_tests))
         => ENABLED verify_sha3_compute
   /\ pc = "exit" =>
         /\ \A k \in 1..Len(sha256_tests) : Mismatch256(k) =>
               /\ AllRunFrom(Calls256, Reported256, sha256_tests, k + 1)
               /\ AllRunFrom(Calls3, Reported3, sha3_tests, 1)
         /\ \A k \in 1..Len(sha3_tests) : Mismatch3(k) =>
               /\ AllRunFrom(Calls3, Reported3, sha3_tests, k + 1)
               /\ AllRunFrom(Calls256, Reported256, sha256_tests, 1)
         /\ stdout # <<>>
         /\ stdout[Len(stdout)].kind = "summary"

\* A finished run whose first SHA-256 case mismatched and whose second one,
\* and the SHA-3-256 cases after it, were still run and printed.
C2_Witness ==
   /\ pc = "exit"
   /\ Len(sha256_tests) = 2
   /\ Mismatch256(1)
   /\ AllRunFrom(Calls256, Reported256, sha256_tests, 2)
   /\ Reported256[2].status = "PASS"
   /\ Len(sha3_tests) = 2
   /\ AllRunFrom(Calls3, Reported3, sha3_tests, 1)

(***************************************************************************)
(* C3: the order of the results                                            *)
(***************************************************************************)

\* The printed cases rs are the first cases of the table tests, in order.
InTableOrder(rs, tests) ==
   /\ Len(rs) <= Len(tests)
   /\ \A k \in 1..Len(rs) :
         /\ rs[k].number = k
         /\ rs[k].description = tests[k][1]
         /\ rs[k].input = display_msg(tests[k][2])
         /\ rs[k].expected = format_hash(tests[k][3])

\* C3: at every point the cases printed by a verification function are the
\* first cases of its table, in the table's order: the k-th one printed is
\* numbered k and shows the description, the message and the expected
\* string of the k-th case of the table, whatever the verdicts are.
C3_OrderPreserved ==
   /\ InTableOrder(Reported256, sha256_tests)
   /\ InTableOrder(Reported3, sha3_tests)

\* A finished run in which a failed case was printed before a passed one of
\* another description.
C3_Witness ==
   /\ pc = "exit"
   /\ Len(Reported256) = 2
   /\ Reported256[1].status = "FAIL"
   /\ Reported256[2].status = "PASS"
   /\ Reported256[1].description # Reported256[2].description
   /\ Len(Reported3) = 2
   /\ Reported3[1].status = "PASS"
   /\ Reported3[2].status = "FAIL"

(***************************************************************************)
(* C4: how computed and expected are compared                              *)
(***************************************************************************)

\* The strings s and t are the same up to the case of their letters.
SameUpToCase(s, t) ==
   /\ Len(s) = Len(t)
   /\ \A k \in 1..Len(s) :
         \/ CharAt(s, k) = CharAt(t, k)
         \/ LowerChar(CharAt(s, k)) = LowerChar(CharAt(t, k))

\* The verdict a printed case must show when the comparison is exact.
ExactVerdict(digest, expected) ==
   IF digest = expected THEN "PASS" ELSE "FAIL"

\* C4 as stated: a case whose expected string is the computed digest up to
\* the case of its letters has been recorded as passed once it is compared.
C4_CaseInsensitive ==
   (pc \in {"sha256_compared", "sha3_compared"}
      /\ SameUpToCase(CaseInHand[3], computed)) => match

\* C4, amended: computed and expected are compared as they stand, character
\* for character.  A compared case has matched exactly when its expected
\* string is the computed lower-case digest itself, every printed case shows
\* PASS exactly then, and a case whose expected string is the digest in
\* another letter case is a FAIL.
C4_ExactCompare ==
   /\ pc \in {"sha256_compared", "sha3_compared"} =>
         /\ match <=> (CaseInHand[3] = computed)
         /\ (CaseInHand[3] # computed /\ SameUpToCase(CaseInHand[3], computed))
               => (~match /\ failed > 0)
   /\ LET rs == Reported256
      IN  \A k \in 1..Len(rs) :
             rs[k].status = ExactVerdict(hashlib_sha256(sha256_tests[k][2]),
                                         sha256_tests[k][3])
   /\ LET rs == Reported3
      IN  \A k \in 1..Len(rs) :
             rs[k].status = ExactVerdict(hashlib_sha3_256(sha3_tests[k][2]),
                                         sha3_tests[k][3])

\* The SHA-256 case in hand has the digest of its message in upper case as
\* its expected string, and has been compared: it did not match.
C4_Witness ==
   /\ pc = "sha256_compared"
   /\ sha256_tests[i][3] # computed
   /\ SameUpToCase(sha256_tests[i][3], computed)
   /\ ~match
   /\ failed = 1

(***************************************************************************)
(* C5: an expected string that is not 64 hexadecimal characters            *)
(***************************************************************************)

HexLetters ==
   {"0", "1", "2", "3", "4", "5", "6", "7", "8", "9",
    "a", "b", "c", "d", "e", "f", "A", "B", "C", "D", "E", "F"}

\* s is 64 hexadecimal characters.
WellFormed(s) ==
   /\ Len(s) = 64
   /\ \A k \in 1..Len(s) : CharAt(s, k) \in HexLetters

Malformed256 ==
   {k \in 1..Len(sha256_tests) : ~WellFormed(sha256_tests[k][3])}

Malformed3 ==
   {k \in 1..Len(sha3_tests) : ~WellFormed(sha3_tests[k][3])}

MessagesOf(cs, tests) ==
   /\ Len(cs) <= Len(tests)
   /\ \A k \in 1..Len(cs) : cs[k][2] = tests[k][2]

\* C6: every hashlib call is a SHA-256 call or a SHA-3-256 call; the SHA-256
\* calls are, in order, on the messages of the first cases of the SHA-256
\* table and the SHA-3-256 calls on those of the SHA-3-256 table; the digest
\* printed for a case is the one its table's algorithm gives for its
\* message; and in a finished run each table has as many calls as cases.
C6_Dispatch ==
   /\ Len(calls) = Len(Calls256) + Len(Calls3)
   /\ MessagesOf(Calls256, sha256_tests)
   /\ MessagesOf(Calls3, sha3_tests)
   /\ LET rs == Reported256
      IN  \A k \in 1..Len(rs) :
             rs[k].computed = format_hash(hashlib_sha256(sha256_tests[k][2]))
   /\ LET rs == Reported3
      IN  \A k \in 1..Len(rs) :
             rs[k].computed = format_hash(hashlib_sha3_256(sha3_tests[k][2]))
   /\ pc = "exit" =>
         /\ Len(Calls256) = Len(sha256_tests)
         /\ Len(Calls3) = Len(sha3_tests)

\* A finished run in which the two tables begin with the same message and
\* the two digests printed for it differ.
C6_Witness ==
   /\ pc = "exit"
   /\ Len(sha256_tests) = 2
   /\ Len(sha3_tests) = 1
   /\ sha256_tests[1][2] = sha3_tests[1][2]
   /\ Len(Reported256) = 2
   /\ Len(Reported3) = 1
   /\ Reported256[1].computed # Reported3[1].computed
   /\ calls = <<(<<"sha256", sha256_tests[1][2]>>),
                (<<"sha256", sha256_tests[2][2]>>),
                (<<"sha3_256", sha3_tests[1][2]>>)>>

(***************************************************************************)
(* C7: the states a case goes through                                      *)
(***************************************************************************)

\* How many cases of each table have been computed, compared and printed:
\* the hashlib calls made, the cases counted, the cases in the output.
ComputedCount256 ==
   Len(Calls256)

ComparedCount256 ==
   IF InSha256 THEN passed + failed
   ELSE IF AfterSha256 THEN sha256_passed + sha256_failed
   ELSE 0

ReportedCount256 ==
   Len(Reported256)

ComputedCount3 ==
   Len(Calls3)

ComparedCount3 ==
   IF InSha3 THEN passed + failed
   ELSE IF AfterSha3 THEN sha3_passed + sha3_failed
   ELSE 0

ReportedCount3 ==
   Len(Reported3)

\* The state of case k: 0 Pending, 1 Computing, 2 Compared, 3 Reported.
Phase256(k) ==
   IF k <= ReportedCount256 THEN 3
   ELSE IF k <= ComparedCount256 THEN 2
   ELSE IF k <= ComputedCount256 THEN 1
   ELSE 0

Phase3(k) ==
   IF k <= ReportedCount3 THEN 3
   ELSE IF k <= ComparedCount3 THEN 2
   ELSE IF k <= ComputedCount3 THEN 1
   ELSE 0

\* No case is printed before it is counted or counted before it is computed,
\* no table has more calls than cases, at most one case of the two tables is
\* between Pending and Reported, and when main has returned every case is
\* Reported.
C7_Counts ==
   /\ ReportedCount256 <= ComparedCount256
   /\ ComparedCount256 <= ComputedCount256
   /\ ComputedCount256 <= Len(sha256_tests)
   /\ ReportedCount3 <= ComparedCount3
   /\ ComparedCount3 <= ComputedCount3
   /\ ComputedCount3 <= Len(sha3_tests)
   /\ (ComputedCount256 - ReportedCount256)
         + (ComputedCount3 - ReportedCount3) <= 1
   /\ pc = "exit" =>
         /\ \A k \in 1..Len(sha256_tests) : Phase256(k) = 3
         /\ \A k \in 1..Len(sha3_tests) : Phase3(k) = 3

\* A step leaves the state of a case alone or moves it to the next one.
C7_Step ==
   /\ \A k \in 1..Len(sha256_tests) :
         Phase256(k)' \in {Phase256(k), Phase256(k) + 1}
   /\ \A k \in 1..Len(sha3_tests) :
         Phase3(k)' \in {Phase3(k), Phase3(k) + 1}

\* C7: every case goes Pending, Computing, Compared, Reported, one state at
\* a time and never back; it is computed once and compared once, one case at
\* a time; and every case of both tables is Reported when main has returned.
C7_Phases ==
   [](C7_Counts) /\ [][C7_Step]_vars

\* The fourth case of the embedded SHA-3-256 table is Compared, the ones
\* before it are Reported and the ones after it are Pending.
C7_Witness ==
   /\ sha3_tests = sha3_tests_embedded
   /\ pc = "sha3_compared"
   /\ \A k \in 1..3 : Phase3(k) = 3
   /\ Phase3(4) = 2
   /\ \A k \in 5..Len(sha3_tests) : Phase3(k) = 0
   /\ \A k \in 1..Len(sha256_tests) : Phase256(k) = 3

(***************************************************************************)
(* C8: the same case twice                                                 *)
(***************************************************************************)

\* Printed cases rs of the table tests that are the same case show the same
\* result.
SameCaseSameResult(rs, tests) ==
   \A j \in 1..Len(rs) : \A k \in 1..Len(rs) :
      (tests[j][2] = tests[k][2] /\ tests[j][3] = tests[k][3]) =>
         /\ rs[j].computed = rs[k].computed
         /\ rs[j].status = rs[k].status

\* C8: two printed cases of a table with the same message and the same
\* expected string show the same computed digest and the same verdict,
\* whatever was run before or between them.
C8_Deterministic ==
   /\ SameCaseSameResult(Reported256, sha256_tests)
   /\ SameCaseSameResult(Reported3, sha3_tests)

\* The embedded SHA-256 table has been run: its case 2 and its back-to-back
\* cases 6 and 7 are the same message and expected string, with other cases
\* between them.
C8_Witness ==
   /\ sha256_tests = sha256_tests_embedded
   /\ Len(Reported256) = 7
   /\ sha256_tests[2][2] = sha256_tests[7][2]
   /\ sha256_tests[6][2] = sha256_tests[7][2]
   /\ sha256_tests[5][2] # sha256_tests[6][2]
   /\ Reported256[2].computed = Reported256[7].computed
   /\ Reported256[6].status = "PASS"
   /\ Reported256[7].status = "PASS"

(***************************************************************************)
(* C9: the embedded tables                                                 *)
(***************************************************************************)

\* Every printed case is a PASS whose computed digest is the expected string
\* of its case in the table tests.
AllPassAsExpected(rs, tests) ==
   \A k \in 1..Len(rs) :
      /\ rs[k].status = "PASS"
      /\ rs[k].computed = format_hash(tests[k][3])

\* C9: the run of the two embedded tables ends with exit status 0, with 7
\* of 7 and 8 of 8 cases passed and none failed; every case is printed as
\* PASS with a computed digest equal to its expected string.
C9_EmbeddedAllPass ==
   (sha256_tests = sha256_tests_embedded
      /\ sha3_tests = sha3_tests_embedded /\ pc = "exit") =>
         /\ exit_status = 0
         /\ sha256_passed = 7 /\ sha256_failed = 0
         /\ sha3_passed = 8 /\ sha3_failed = 0
         /\ Len(Reported256) = 7
         /\ AllPassAsExpected(Reported256, sha256_tests_embedded)
         /\ Len(Reported3) = 8
         /\ AllPassAsExpected(Reported3, sha3_tests_embedded)
         /\ stdout[Len(stdout)].verdict = "ALL TESTS PASSED"
         /\ stdout[Len(stdout)].failures = 0

\* The run of the two embedded tables has ended.
C9_Witness ==
   /\ sha256_tests = sha256_tests_embedded
   /\ sha3_tests = sha3_tests_embedded
   /\ pc = "exit"
   /\ exit_status = 0
   /\ Len(calls) = 15

(***************************************************************************)
(* C10: the counts                                                         *)
(***************************************************************************)

\* In a loop passed + failed is the number of cases compared so far; what a
\* verification function returned adds up to the length of its table, and is
\* the number of PASS and of FAIL cases it printed; the total of the summary
\* is the number of cases of the two tables.
C10_Counts ==
   /\ pc \in {"sha256_loop", "sha256_compared", "sha3_loop", "sha3_compared"}
         => passed + failed = i
   /\ pc \in {"sha256_computed", "sha3_computed"} => passed + failed = i - 1
   /\ AfterSha256 =>
         /\ sha256_passed + sha256_failed = Len(sha256_tests)
         /\ sha256_passed = Len(SelectSeq(Reported256, IsPass))
         /\ sha256_passed <= Len(sha256_tests)
   /\ AfterSha3 =>
         /\ sha3_passed + sha3_failed = Len(sha3_tests)
         /\ sha3_passed = Len(SelectSeq(Reported3, IsPass))
         /\ sha3_passed <= Len(sha3_tests)
         /\ total_tests = Len(sha256_tests) + Len(sha3_tests)
   /\ pc = "exit" =>
         /\ stdout[Len(stdout)].total =
               <<total_passed, Len(sha256_tests) + Len(sha3_tests)>>
         /\ stdout[Len(stdout)].sha256 = <<sha256_passed, Len(sha256_tests)>>
         /\ stdout[Len(stdout)].sha3 = <<sha3_passed, Len(sha3_tests)>>

\* Comparing a case adds one to passed when computed is the expected string
\* and one to failed when it is not, and leaves the other counter alone;
\* computing and printing a case leave both alone.
C10_Step ==
   /\ pc \in {"sha256_computed", "sha3_computed"} =>
         \/ /\ computed = CaseInHand[3]
            /\ passed' = passed + 1
            /\ failed' = failed
         \/ /\ computed # CaseInHand[3]
            /\ passed' = passed
            /\ failed' = failed + 1
   /\ (pc \in {"sha256_compared", "sha3_compared"}
         \/ pc' \in {"sha256_computed", "sha3_computed"})
            => (passed' = passed /\ failed' = failed)

\* C10: the counts are a fold over the results: one counter goes up by one
\* for each case compared, passed + failed is the number of cases compared,
\* each function's counts add up to the length of its table, and the total
\* printed is the number of cases of the two tables.
C10_CountsFold ==
   [](C10_Counts) /\ [][C10_Step]_vars

\* A finished run with one passed and one failed case in each table.
C10_Witness ==
   /\ pc = "exit"
   /\ sha256_passed = 1 /\ sha256_failed = 1
   /\ sha3_passed = 1 /\ sha3_failed = 1
   /\ stdout[Len(stdout)].total = <<2, 4>>

=============================================================================
